---- MODULE Spec2Model ----
(***************************************************************************)
(* Model of src/animatable.py: one Animatable (a side-scrolling pygame     *)
(* surface) together with the screen it is drawn on.  The element's fields *)
(* keep the names of the Python attributes.  The screen contributes its    *)
(* current width (screen.get_size()) and the blit calls it receives.       *)
(***************************************************************************)
EXTENDS Integers, Sequences, FiniteSets

(* ------------------------------ bounds --------------------------------- *)
MaxBitmapW == 3
MaxBitmapH == 1
MaxScreenW == 9
MaxSpeed == 2
MaxStartX == 4
MaxY == 1
MaxFrames == 3

(* --------------------------- program constants -------------------------- *)
Margin == 50

CENTERED == 1
RIGHT == 2
LEFT == 3
OFFSCREEN == 4
TargetXLocation == {CENTERED, RIGHT, LEFT, OFFSCREEN}

(* ------------------------------ input sets ------------------------------ *)
BitmapWs == {1, MaxBitmapW - 1, MaxBitmapW}
BitmapHs == {MaxBitmapH}
ScreenWs == {0, MaxScreenW - 3, MaxScreenW}
CtorSpeeds == {1, MaxSpeed}
NewSpeeds == {0, 1, MaxSpeed}
StartXs == (-MaxStartX)..(Margin + MaxStartX)
CurrYs == {0, MaxY}
\* lowest position the model follows a scrolling element to
MinX == -(MaxBitmapW + Margin + 2 * MaxSpeed + 2)

\* Python's None / a present value, for self.wantedX
None == <<>>
Some(v) == <<v>>
Val(o) == o[1]

VARIABLES
  w, h,          \* self.w, self.h: size of the surface
  currX,         \* self.currX
  wantedXEnum,   \* self.wantedXEnum
  wantedX,       \* self.wantedX: None or Some(x)
  currY,         \* self.currY
  speed,         \* self.speed
  alive,         \* self.alive
  loop,          \* self.loop
  screenW,       \* width reported by screen.get_size()
  blits,         \* positions blitted to the screen by the last animate call
  ret,           \* value returned by the last animate call
  lastOp,        \* last operation performed on the element
  argSpeed,      \* the speed argument the constructor was called with
  resolveW,      \* screen width in use when wantedX was last computed
  wrapped,       \* the last animate call looped the element back to the right
  newspeed,      \* argument of the set_speed call, when that was the last operation
  elems,         \* two Animatable objects drawn on the same screen, by id
  frameStart,    \* elems as it was when the current frame began
  screen,        \* blits received by the screen in the current frame: <<id, x, y>>
  pending,       \* ids of the elements still to be animated in the current frame
  frame          \* number of frames completed

vars == <<w, h, currX, wantedXEnum, wantedX, currY, speed, alive, loop,
          screenW, blits, ret, lastOp, argSpeed, resolveW, wrapped,
          newspeed, elems, frameStart, screen, pending, frame>>

\* the part of the state that belongs to the pair of elements
pairVars == <<elems, frameStart, screen, pending, frame>>

(* --------------------------- pure computations -------------------------- *)

\* third = screenW // 3
Third(sw) == sw \div 3

\* a constructor that subtracts 1 from every looped speed
InitSpeed_NoFloor(s, lp) == IF lp THEN s - 1 ELSE s

\* __init__: looped items move a bit slower
InitSpeed(s, lp) == IF lp THEN (IF s > 1 THEN s - 1 ELSE s) ELSE s

\* a centring that halves the difference instead of the two widths
TargetX_HalfDiff(kind, bw, sw) ==
  CASE kind = CENTERED  -> (sw - bw) \div 2
    [] kind = RIGHT     -> sw - (bw + Margin)
    [] kind = LEFT      -> Margin
    [] kind = OFFSCREEN -> -(bw + Margin)

\* an offscreen target without the margin
TargetX_OffAtEdge(kind, bw, sw) ==
  CASE kind = CENTERED  -> (sw \div 2) - (bw \div 2)
    [] kind = RIGHT     -> sw - (bw + Margin)
    [] kind = LEFT      -> Margin
    [] kind = OFFSCREEN -> -bw

\* the four branches that compute self.wantedX
TargetX(kind, bw, sw) ==
  CASE kind = CENTERED  -> (sw \div 2) - (bw \div 2)
    [] kind = RIGHT     -> sw - (bw + Margin)
    [] kind = LEFT      -> Margin
    [] kind = OFFSCREEN -> -(bw + Margin)

\* an animate that recomputes the target on every call
Resolve_Always(wx, kind, bw, sw) == Some(TargetX(kind, bw, sw))

\* "if self.wantedX == None: ..." : compute only when not yet computed
Resolve(wx, kind, bw, sw) ==
  IF wx = None THEN Some(TargetX(kind, bw, sw)) ELSE wx

\* a wrap test that does not look at alive
Wraps_Dead(d, alv, bw) == d < -bw

\* "self.currX < -self.w and self.alive == True", on the decremented position
Wraps(d, alv, bw) == d < -bw /\ alv

\* a non-looping move that still steps when it is exactly on the target
Move_GE(x, target, spd, lp, alv, bw, sw) ==
  IF ~lp
    THEN IF x >= target THEN x - spd ELSE x
    ELSE LET d == x - spd
         IN  IF Wraps(d, alv, bw) THEN d + bw + (2 * Third(sw)) ELSE d

\* a looping move that wraps a killed element too
Move_WrapDead(x, target, spd, lp, alv, bw, sw) ==
  IF ~lp
    THEN IF x > target THEN x - spd ELSE x
    ELSE LET d == x - spd
         IN  IF d < -bw THEN d + bw + (2 * Third(sw)) ELSE d

\* a looping move that wraps by 2 * third only
Move_NoWidth(x, target, spd, lp, alv, bw, sw) ==
  IF ~lp
    THEN IF x > target THEN x - spd ELSE x
    ELSE LET d == x - spd
         IN  IF Wraps(d, alv, bw) THEN d + (2 * Third(sw)) ELSE d

\* a non-looping move that steps back right when it is left of the target
Move_Correct(x, target, spd, lp, alv, bw, sw) ==
  IF ~lp
    THEN IF x > target THEN x - spd ELSE IF x < target THEN x + spd ELSE x
    ELSE LET d == x - spd
         IN  IF Wraps(d, alv, bw) THEN d + bw + (2 * Third(sw)) ELSE d

\* the position update of animate
Move(x, target, spd, lp, alv, bw, sw) ==
  IF ~lp
    THEN IF x > target THEN x - spd ELSE x
    ELSE LET d == x - spd
         IN  IF Wraps(d, alv, bw) THEN d + bw + (2 * Third(sw)) ELSE d

\* a second copy that is drawn for a killed element too
Blits_Dead(x, y, lp, alv, bw, sw) ==
  <<  <<x, y>>  >> \o
  (IF lp /\ (x + bw) < Third(sw)
     THEN << <<x + bw + (2 * Third(sw)), y>> >>
     ELSE << >>)

\* a second copy placed 2 * third to the right, without the width
Blits_NoWidth(x, y, lp, alv, bw, sw) ==
  <<  <<x, y>>  >> \o
  (IF lp /\ alv /\ (x + bw) < Third(sw)
     THEN << <<x + (2 * Third(sw)), y>> >>
     ELSE << >>)

\* the blit calls of animate, in order
Blits(x, y, lp, alv, bw, sw) ==
  <<  <<x, y>>  >> \o
  (IF lp /\ alv /\ (x + bw) < Third(sw)
     THEN << <<x + bw + (2 * Third(sw)), y>> >>
     ELSE << >>)

\* a completion test that reports a killed element instead of a live one
Finished_Dead(x, alv, bw) == ~alv /\ x < -bw

\* the return value of animate
Finished(x, alv, bw) == alv /\ x < -bw

(* ------------------------------- states -------------------------------- *)

TypeOK ==
  /\ w \in BitmapWs /\ h \in BitmapHs
  /\ currX \in Int
  /\ wantedXEnum \in TargetXLocation
  /\ wantedX \in Seq(Int) /\ Len(wantedX) <= 1
  /\ currY \in CurrYs
  /\ speed \in Nat
  /\ alive \in BOOLEAN /\ loop \in BOOLEAN
  /\ screenW \in ScreenWs
  /\ ret \in BOOLEAN
  /\ lastOp \in {"init", "animate", "set_speed", "kill", "resize"}
  /\ argSpeed \in CtorSpeeds
  /\ resolveW \in Seq(ScreenWs) /\ Len(resolveW) <= 1
  /\ wrapped \in BOOLEAN
  /\ newspeed \in Seq(NewSpeeds) /\ Len(newspeed) <= 1

\* Animatable(surface, currX, wantedXEnum, currY, speed, loop)
Init ==
  /\ w \in BitmapWs
  /\ h \in BitmapHs
  /\ currX \in StartXs
  /\ wantedXEnum \in TargetXLocation
  /\ wantedX = None
  /\ currY \in CurrYs
  /\ argSpeed \in CtorSpeeds
  /\ loop \in BOOLEAN
  /\ speed = InitSpeed(argSpeed, loop)
  /\ alive = TRUE
  /\ screenW \in ScreenWs
  /\ blits = << >>
  /\ ret = FALSE
  /\ lastOp = "init"
  /\ resolveW = None
  /\ wrapped = FALSE
  /\ newspeed = None
  /\ elems = << >>
  /\ frameStart = << >>
  /\ screen = << >>
  /\ pending = {}
  /\ frame = 0

\* an animate that blits and tests before it moves the element
Animate_DrawFirst ==
  /\ currX > MinX
  /\ LET wx == Resolve(wantedX, wantedXEnum, w, screenW)
         x  == Move(currX, Val(wx), speed, loop, alive, w, screenW)
     IN  /\ wantedX' = wx
         /\ resolveW' = IF wantedX = None THEN Some(screenW) ELSE resolveW
         /\ currX' = x
         /\ blits' = Blits(currX, currY, loop, alive, w, screenW)
         /\ ret' = Finished(currX, alive, w)
         /\ wrapped' = (loop /\ Wraps(currX - speed, alive, w))
  /\ lastOp' = "animate"
  /\ newspeed' = None
  /\ UNCHANGED pairVars
  /\ UNCHANGED <<w, h, wantedXEnum, currY, speed, alive, loop, screenW, argSpeed>>

\* animate(screen)
Animate ==
  /\ currX > MinX
  /\ LET wx == Resolve(wantedX, wantedXEnum, w, screenW)
         x  == Move(currX, Val(wx), speed, loop, alive, w, screenW)
     IN  /\ wantedX' = wx
         /\ resolveW' = IF wantedX = None THEN Some(screenW) ELSE resolveW
         /\ currX' = x
         /\ blits' = Blits(x, currY, loop, alive, w, screenW)
         /\ ret' = Finished(x, alive, w)
         /\ wrapped' = (loop /\ Wraps(currX - speed, alive, w))
  /\ lastOp' = "animate"
  /\ newspeed' = None
  /\ UNCHANGED pairVars
  /\ UNCHANGED <<w, h, wantedXEnum, currY, speed, alive, loop, screenW, argSpeed>>

\* a set_speed that slows a looping element down as the constructor does
SetSpeed_Looped(n) ==
  /\ speed' = InitSpeed(n, loop)
  /\ lastOp' = "set_speed"
  /\ newspeed' = Some(n)
  /\ UNCHANGED pairVars
  /\ UNCHANGED <<w, h, currX, wantedXEnum, wantedX, currY, alive, loop,
                 screenW, blits, ret, argSpeed, resolveW, wrapped>>

\* set_speed(newspeed)
SetSpeed(n) ==
  /\ speed' = n
  /\ lastOp' = "set_speed"
  /\ newspeed' = Some(n)
  /\ UNCHANGED pairVars
  /\ UNCHANGED <<w, h, currX, wantedXEnum, wantedX, currY, alive, loop,
                 screenW, blits, ret, argSpeed, resolveW, wrapped>>

\* a kill that keeps the target computed before it
Kill_KeepTarget ==
  /\ alive' = FALSE
  /\ wantedXEnum' = OFFSCREEN
  /\ lastOp' = "kill"
  /\ newspeed' = None
  /\ UNCHANGED pairVars
  /\ UNCHANGED <<w, h, currX, wantedX, currY, speed, loop, screenW, blits, ret,
                 argSpeed, resolveW, wrapped>>

\* a kill that also speeds the element up
Kill_SpeedUp ==
  /\ alive' = FALSE
  /\ wantedXEnum' = OFFSCREEN
  /\ wantedX' = None
  /\ resolveW' = None
  /\ speed' = IF speed < MaxSpeed THEN speed + 1 ELSE speed
  /\ lastOp' = "kill"
  /\ newspeed' = None
  /\ UNCHANGED pairVars
  /\ UNCHANGED <<w, h, currX, currY, loop, screenW, blits, ret, argSpeed,
                 wrapped>>

\* a kill that also puts the element at its offscreen position
Kill_SetX ==
  /\ alive' = FALSE
  /\ wantedXEnum' = OFFSCREEN
  /\ wantedX' = None
  /\ resolveW' = None
  /\ currX' = -(w + Margin)
  /\ lastOp' = "kill"
  /\ newspeed' = None
  /\ UNCHANGED pairVars
  /\ UNCHANGED <<w, h, currY, speed, loop, screenW, blits, ret, argSpeed,
                 wrapped>>

\* kill()
Kill ==
  /\ alive' = FALSE
  /\ wantedXEnum' = OFFSCREEN
  /\ wantedX' = None
  /\ resolveW' = None
  /\ lastOp' = "kill"
  /\ newspeed' = None
  /\ UNCHANGED pairVars
  /\ UNCHANGED <<w, h, currX, currY, speed, loop, screenW, blits, ret, argSpeed,
                 wrapped>>

\* the window is resized between two frames
Resize(sw) ==
  /\ sw # screenW
  /\ screenW' = sw
  /\ lastOp' = "resize"
  /\ newspeed' = None
  /\ UNCHANGED pairVars
  /\ UNCHANGED <<w, h, currX, wantedXEnum, wantedX, currY, speed, alive, loop,
                 blits, ret, argSpeed, resolveW, wrapped>>

Next ==
  \/ Animate
  \/ \E n \in NewSpeeds : SetSpeed(n)
  \/ Kill
  \/ \E sw \in ScreenWs : Resize(sw)

Spec == Init /\ [][Next]_vars

\* one animate call per frame on a screen of fixed size, the element may be
\* killed between frames
NextFrames ==
  \/ Animate
  \/ Kill

SpecFrames == Init /\ [][NextFrames]_vars /\ WF_vars(Animate)

\* one animate call per frame, nothing else
NextAnimate == Animate

SpecAnimate == Init /\ [][NextAnimate]_vars /\ WF_vars(Animate)

\* one animate call per frame; between frames the element may be killed and
\* the window resized
NextLive ==
  \/ Animate
  \/ Kill
  \/ \E sw \in ScreenWs : Resize(sw)

SpecLive == Init /\ [][NextLive]_vars /\ WF_vars(Animate)

(* --------------------- two elements on one screen ----------------------- *)

ElemIds == {1, 2}

\* inputs of the two constructors
PairStartXs == {-1, MaxStartX}
PairKinds == {CENTERED, RIGHT}
PairW == MaxBitmapW
PairScreenW == MaxScreenW - 3
PairNewSpeeds == {MaxSpeed}

\* Animatable(surface, currX, wantedXEnum, currY, speed, loop) as a record
NewElem(bw, x, kind, y, s, lp) ==
  [w |-> bw, currX |-> x, wantedXEnum |-> kind, wantedX |-> None, currY |-> y,
   speed |-> InitSpeed(s, lp), alive |-> TRUE, loop |-> lp]

\* the element after animate(screen) on a screen sw wide
AnimateElem(e, sw) ==
  LET wx == Resolve(e.wantedX, e.wantedXEnum, e.w, sw)
      x  == Move(e.currX, Val(wx), e.speed, e.loop, e.alive, e.w, sw)
  IN  [e EXCEPT !.wantedX = wx, !.currX = x]

\* the blits of animate(screen) that leaves the element as e
BlitsElem(e, sw) == Blits(e.currX, e.currY, e.loop, e.alive, e.w, sw)

\* the element after kill()
KillElem(e) ==
  [e EXCEPT !.alive = FALSE, !.wantedXEnum = OFFSCREEN, !.wantedX = None]

\* blits tagged with the element they come from
Tagged(i, bs) == [k \in 1..Len(bs) |-> <<i, bs[k][1], bs[k][2]>>]

\* the blits of element i among those the screen received, in order
BlitsOf(i, scr) ==
  LET own == SelectSeq(scr, LAMBDA b : b[1] = i)
  IN  [k \in 1..Len(own) |-> <<own[k][2], own[k][3]>>]

InitPair ==
  /\ elems \in [ElemIds ->
        {NewElem(PairW, x, kind, y, s, lp) :
           x \in PairStartXs, kind \in PairKinds, y \in {MaxY},
           s \in {1}, lp \in BOOLEAN}]
  /\ frameStart = elems
  /\ screen = << >>
  /\ pending = ElemIds
  /\ frame = 0
  /\ w = PairW /\ h = MaxBitmapH
  /\ currX = 0 /\ currY = 0
  /\ wantedXEnum = CENTERED /\ wantedX = None
  /\ argSpeed = 1 /\ speed = 1
  /\ loop = FALSE /\ alive = TRUE
  /\ screenW = PairScreenW
  /\ blits = << >> /\ ret = FALSE /\ lastOp = "init"
  /\ resolveW = None /\ wrapped = FALSE /\ newspeed = None

elemVars == <<w, h, currX, wantedXEnum, wantedX, currY, speed, alive, loop,
              screenW, blits, ret, lastOp, argSpeed, resolveW, wrapped,
              newspeed>>

\* an animate whose computed target is stored for every element
AnimateOf_Shared(i) ==
  /\ i \in pending
  /\ LET e == AnimateElem(elems[i], screenW)
     IN  /\ elems' = [j \in ElemIds |->
                        IF j = i THEN e ELSE [elems[j] EXCEPT !.wantedX = e.wantedX]]
         /\ screen' = screen \o Tagged(i, BlitsElem(e, screenW))
  /\ pending' = pending \ {i}
  /\ frameStart' = IF pending = ElemIds THEN elems ELSE frameStart
  /\ UNCHANGED <<frame, elemVars>>

\* elems[i].animate(screen), once per element and frame, in any order
AnimateOf(i) ==
  /\ i \in pending
  /\ LET e == AnimateElem(elems[i], screenW)
     IN  /\ elems' = [elems EXCEPT ![i] = e]
         /\ screen' = screen \o Tagged(i, BlitsElem(e, screenW))
  /\ pending' = pending \ {i}
  /\ frameStart' = IF pending = ElemIds THEN elems ELSE frameStart
  /\ UNCHANGED <<frame, elemVars>>

\* elems[i].kill(), between two frames
KillOf(i) ==
  /\ pending = ElemIds
  /\ elems' = [elems EXCEPT ![i] = KillElem(elems[i])]
  /\ UNCHANGED <<frameStart, screen, pending, frame, elemVars>>

\* elems[i].set_speed(n), between two frames
SetSpeedOf(i, n) ==
  /\ pending = ElemIds
  /\ elems' = [elems EXCEPT ![i].speed = n]
  /\ UNCHANGED <<frameStart, screen, pending, frame, elemVars>>

\* every element has been animated: the frame is shown and the next one begins
EndFrame ==
  /\ pending = {}
  /\ frame < MaxFrames
  /\ frame' = frame + 1
  /\ pending' = ElemIds
  /\ screen' = << >>
  /\ UNCHANGED <<elems, frameStart, elemVars>>

NextPair ==
  \/ \E i \in ElemIds : AnimateOf(i)
  \/ \E i \in ElemIds : KillOf(i)
  \/ \E i \in ElemIds : \E n \in PairNewSpeeds : SetSpeedOf(i, n)
  \/ EndFrame

SpecPair == InitPair /\ [][NextPair]_vars

(* ------------------------------- claims -------------------------------- *)

\* C1: after kill(), on a screen of fixed size, an animate call returns true
\* exactly on the first frame whose position is below -w (the frame that
\* crosses the left edge), and on no other frame.
C1_TrueOnceAfterKill ==
  [][(~alive /\ lastOp' = "animate")
       => (ret' <=> (~(currX < -w) /\ currX' < -w))]_vars

\* C2: animate returns true only for an element that is not alive and whose
\* position is below -w; an element that is still alive always gets false.
C2_TrueOnlyWhenDismissed ==
  (lastOp = "animate" /\ ret) => (~alive /\ currX < -w)

\* C3: an animate call that finds wantedX unset sets it by target kind:
\* CENTERED (screenW div 2) - (w div 2), RIGHT screenW - (w + 50), LEFT 50,
\* OFFSCREEN -(w + 50); a call that finds it set leaves it as it is.  On a
\* screen 800 wide with a surface 100 wide the four values are 350, 650, 50
\* and -150.
C3_ResolveByKind ==
  /\ [][lastOp' = "animate" =>
          IF wantedX # None
            THEN wantedX' = wantedX
            ELSE /\ wantedXEnum = CENTERED
                      => wantedX' = Some((screenW \div 2) - (w \div 2))
                 /\ wantedXEnum = RIGHT
                      => wantedX' = Some(screenW - (w + 50))
                 /\ wantedXEnum = LEFT
                      => wantedX' = Some(50)
                 /\ wantedXEnum = OFFSCREEN
                      => wantedX' = Some(-(w + 50))]_vars
  /\ [](/\ TargetX(CENTERED, 100, 800) = 350
        /\ TargetX(RIGHT, 100, 800) = 650
        /\ TargetX(LEFT, 100, 800) = 50
        /\ TargetX(OFFSCREEN, 100, 800) = -150)

\* C3 witness: a first animate call has just computed a centred target from
\* an even screen width and an odd surface width
C3_Witness ==
  /\ lastOp = "animate" /\ alive
  /\ wantedXEnum = CENTERED
  /\ resolveW = Some(screenW)
  /\ screenW % 2 = 0 /\ screenW > 0 /\ w % 2 = 1
  /\ wantedX = Some((screenW \div 2) - (w \div 2))

\* C4 as stated: after an animate call, a computed wantedX is the value of the
\* current target kind for the width the screen has in that call.
C4_NeverStale ==
  (lastOp = "animate" /\ wantedX # None)
    => Val(wantedX) = TargetX(wantedXEnum, w, screenW)

\* C4 as amended: a computed wantedX is the value of the current target kind
\* for the width the screen had in the animate call that computed it (the
\* first call after construction or after the latest kill); later calls keep
\* it, whatever the width of the screen has become.
C4_ResolvedAtFirstUse ==
  /\ (wantedX # None) <=> (resolveW # None)
  /\ wantedX # None =>
       /\ wantedXEnum = CENTERED =>
            Val(wantedX) = (Val(resolveW) \div 2) - (w \div 2)
       /\ wantedXEnum = RIGHT => Val(wantedX) = Val(resolveW) - (w + 50)
       /\ wantedXEnum = LEFT => Val(wantedX) = 50
       /\ wantedXEnum = OFFSCREEN => Val(wantedX) = -(w + 50)

\* C4 witness: an animate call on a resized screen has kept a centred target
\* that differs from the centre of the current screen
C4_Witness ==
  /\ lastOp = "animate"
  /\ wantedXEnum = CENTERED
  /\ wantedX # None
  /\ resolveW # Some(screenW)
  /\ Val(wantedX) # (screenW \div 2) - (w \div 2)

\* C5: with only animate calls on a screen of fixed size and speed >= 1, a
\* non-looping element steps left by exactly speed when it is right of its
\* target and does not move otherwise; its position never increases, it
\* eventually is at or left of the target, and from then on it is constant.
C5_NonLoopingConverges ==
  /\ [][(~loop /\ lastOp' = "animate") =>
          /\ wantedX' # None
          /\ currX > Val(wantedX') => currX' = currX - speed
          /\ currX <= Val(wantedX') => currX' = currX
          /\ currX' <= currX]_vars
  /\ [][(~loop /\ wantedX # None /\ currX <= Val(wantedX))
          => (currX' = currX /\ wantedX' = wantedX)]_vars
  /\ <>[](~loop => (wantedX # None /\ currX <= Val(wantedX)))

\* C5 witness: a non-looping element has moved left of every start position
\* and has come to rest at or left of its target
C5_Witness ==
  /\ ~loop /\ alive /\ lastOp = "animate"
  /\ speed >= 1
  /\ currX < -MaxStartX
  /\ wantedX # None /\ currX <= Val(wantedX)

\* C6: every animate call moves a looping element left by speed, whatever its
\* target; when the decremented position is below -w and the element is
\* alive, w + 2 * (screenW div 3) is added in the same call, and otherwise
\* nothing is added.
C6_LoopingStep ==
  [][(loop /\ lastOp' = "animate") =>
       currX' = IF (currX - speed) < -w /\ alive
                  THEN (currX - speed) + w + 2 * (screenW \div 3)
                  ELSE currX - speed]_vars

\* C6 witness: a live looping element has just been looped back to the right
\* of where it was
C6_Witness ==
  /\ loop /\ alive /\ lastOp = "animate" /\ wrapped
  /\ speed >= 1 /\ screenW > 0
  /\ currX >= 0

\* C7: every animate call blits once or twice; twice exactly when the element
\* loops, is alive and its updated position satisfies
\* currX + w < screenW div 3, and then the second blit is at
\* (currX + w + 2 * (screenW div 3), currY).
C7_OneOrTwoBlits ==
  lastOp = "animate" =>
    /\ Len(blits) \in {1, 2}
    /\ (Len(blits) = 2) <=> (loop /\ alive /\ currX + w < (screenW \div 3))
    /\ Len(blits) = 2 => blits[2] = <<currX + w + 2 * (screenW \div 3), currY>>

\* C7 witness: an animate call has blitted a second copy
C7_Witness ==
  /\ lastOp = "animate" /\ Len(blits) = 2
  /\ blits[2][1] > blits[1][1]

\* C8 as stated: a kill() on an element that is already killed changes none
\* of alive, wantedXEnum, wantedX, currX and speed.
C8_KillIdempotent ==
  [][(~alive /\ lastOp' = "kill") =>
       /\ alive' = alive
       /\ wantedXEnum' = wantedXEnum
       /\ wantedX' = wantedX
       /\ currX' = currX
       /\ speed' = speed]_vars

\* C8 as amended: a kill() on an element that is already killed changes none
\* of alive, wantedXEnum, currX and speed; it leaves wantedX unset, so it
\* changes nothing at all when no animate call came since the earlier kill,
\* and it unsets wantedX again when one did.
C8_KillAgain ==
  [][(~alive /\ lastOp' = "kill") =>
       /\ alive' = alive
       /\ wantedXEnum' = wantedXEnum
       /\ currX' = currX
       /\ speed' = speed
       /\ wantedX' = None
       /\ wantedX = None => wantedX' = wantedX]_vars

\* C8 witness: kill, then an animate call that left a position below -w
\* without reporting it (so the element was already killed), then kill again
C8_Witness ==
  /\ ~alive /\ lastOp = "kill"
  /\ blits # << >> /\ blits[1][1] = currX
  /\ currX < -w /\ ~ret
  /\ wantedX = None

\* C9: once killed, an element stays not alive with target kind OFFSCREEN
\* under every later animate, set_speed and kill (and resize); and after each
\* animate call on a killed element wantedX is -(w + 50), not the value of
\* the earlier target kind.
C9_DismissalOneWay ==
  /\ [](~alive => wantedXEnum = OFFSCREEN)
  /\ [][~alive => ~alive']_vars
  /\ []((~alive /\ lastOp = "animate") => wantedX = Some(-(w + 50)))

\* C9 witness: a killed element whose target had been computed on a screen of
\* positive width has been animated and now has the offscreen target
C9_Witness ==
  /\ ~alive /\ lastOp = "animate"
  /\ wantedXEnum = OFFSCREEN
  /\ wantedX = Some(-(w + 50))
  /\ screenW > 0 /\ ~loop
  /\ currX < 0

\* C10: right after construction with speed argument s >= 1, a looping
\* element has speed s - 1 if s > 1 and 1 if s = 1 (5 gives 4, 1 gives 1), a
\* non-looping element has speed s, and so speed >= 1.
C10_ConstructionSpeed ==
  /\ lastOp = "init" =>
       /\ loop /\ argSpeed > 1 => speed = argSpeed - 1
       /\ loop /\ argSpeed = 1 => speed = 1
       /\ ~loop => speed = argSpeed
       /\ speed >= 1
  /\ InitSpeed(5, TRUE) = 4
  /\ InitSpeed(1, TRUE) = 1
  /\ InitSpeed(5, FALSE) = 5

\* C10 witness: a looping element constructed with speed 1
C10_Witness ==
  lastOp = "init" /\ loop /\ argSpeed = 1 /\ speed = 1

\* C11 as stated: set_speed(n) makes speed n whatever the element is and
\* changes nothing else, and an animate call that comes right after it and
\* moves the element changes currX by exactly n (here for n >= 1).
C11_SetSpeedDelta ==
  [][/\ lastOp' = "set_speed" =>
          /\ speed' = Val(newspeed')
          /\ UNCHANGED <<w, h, currX, wantedXEnum, wantedX, currY, alive, loop>>
     /\ (lastOp = "set_speed" /\ lastOp' = "animate" /\ currX' # currX
           /\ Val(newspeed) >= 1) =>
          (currX' = currX - Val(newspeed) \/ currX' = currX + Val(newspeed))]_vars

\* C11 as amended: set_speed(n) makes speed n whatever the element is and
\* changes nothing else; the animate call that comes right after it either
\* leaves currX alone (a non-looping element at or left of its target) or
\* subtracts exactly n from it, and when that call loops a live looping
\* element back it adds w + 2 * (screenW div 3) on top of subtracting n.
C11_SetSpeedDecrement ==
  [][/\ lastOp' = "set_speed" =>
          /\ speed' = Val(newspeed')
          /\ UNCHANGED <<w, h, currX, wantedXEnum, wantedX, currY, alive, loop>>
     /\ (lastOp = "set_speed" /\ lastOp' = "animate") =>
          \/ ~loop /\ currX <= Val(wantedX') /\ currX' = currX
          \/ ~loop /\ currX > Val(wantedX') /\ currX' = currX - Val(newspeed)
          \/ loop /\ ~wrapped' /\ currX' = currX - Val(newspeed)
          \/ loop /\ wrapped' /\ alive
               /\ currX' = currX - Val(newspeed) + w + 2 * (screenW \div 3)]_vars

\* C11 witness: a looping element built with speed 1 was given speed 2 and the
\* animate call after it looped it back, 2 to the left of a full period
C11_Witness ==
  /\ lastOp = "animate" /\ loop /\ alive /\ wrapped
  /\ argSpeed = 1 /\ speed = MaxSpeed /\ MaxSpeed > 1
  /\ screenW > 0
  /\ Len(blits) = 1

C14_LoopingStaysOn ==
  [][(loop /\ alive /\ lastOp' = "animate" /\ currX >= -w /\ speed >= 1)
       => (currX' >= -w /\ ~ret')]_vars

\* C14 as amended: an animate call on a live looping element with
\* currX >= -w and 1 <= speed <= w + 2 * (screenW div 3) leaves currX >= -w
\* and returns false.
C14_LoopingStaysOnWithinPeriod ==
  [][(loop /\ alive /\ lastOp' = "animate" /\ currX >= -w /\ speed >= 1
        /\ speed <= w + 2 * (screenW \div 3))
       => (currX' >= -w /\ ~ret')]_vars

\* C14 witness: a live looping element has been looped back onto the screen
\* and the call returned false
C14_Witness ==
  /\ lastOp = "animate" /\ loop /\ alive /\ wrapped
  /\ speed >= 1 /\ speed <= w + 2 * (screenW \div 3)
  /\ currX >= -w /\ ~ret

\* C15: with one animate call per frame, speed >= 1 and any screen widths, a
\* killed non-looping element eventually has currX <= -(w + 50), which is
\* below -w, and from then on its position is constant.
C15_DismissedLeavesScreen ==
  /\ (~alive /\ ~loop) ~> (~alive /\ ~loop /\ currX <= -(w + 50) /\ currX < -w)
  /\ [][(~alive /\ ~loop /\ currX <= -(w + 50)) => currX' = currX]_vars

\* C15 witness: a killed non-looping element that was on the screen has come
\* to rest at or left of -(w + 50)
C15_Witness ==
  /\ ~alive /\ ~loop /\ lastOp = "animate"
  /\ speed >= 1
  /\ wantedX = Some(-(w + 50))
  /\ currX <= -(w + 50)
  /\ ~ret

\* C16: every animate call on a killed looping element subtracts exactly speed
\* from currX, does not wrap and blits once; with speed >= 1 and one animate
\* call per frame the position strictly decreases and eventually stays below
\* -w for good.
C16_DismissedLoopRunsOff ==
  /\ [][(~alive /\ loop /\ lastOp' = "animate") =>
          /\ currX' = currX - speed
          /\ currX' < currX
          /\ ~wrapped'
          /\ Len(blits') = 1]_vars
  /\ (~alive /\ loop) ~> [](currX < -w)

\* C16 witness: a killed looping element is further left than a live one can
\* be after a wrap, after a call that blitted once
C16_Witness ==
  /\ ~alive /\ loop /\ lastOp = "animate"
  /\ speed >= 1
  /\ currX < -(w + MaxSpeed) /\ currX < -MaxStartX
  /\ Len(blits) = 1 /\ ~wrapped

\* C17: an animate call resolves the target, then moves, then blits, then
\* tests for completion: a non-looping element whose target was unset is moved
\* against the target computed in that call, the first blit is at the updated
\* currX and at currY, and both the test for the second copy and the returned
\* value read the updated currX.
C17_ResolveMoveDrawCheck ==
  /\ [][(lastOp' = "animate" /\ ~loop /\ wantedX = None) =>
          /\ wantedX' # None
          /\ currX' = IF currX > Val(wantedX') THEN currX - speed ELSE currX]_vars
  /\ [](lastOp = "animate" =>
          /\ blits[1] = <<currX, currY>>
          /\ (Len(blits) = 2) <=> (loop /\ alive /\ currX + w < (screenW \div 3))
          /\ ret <=> (alive /\ currX < -w))

\* C17 witness: a call that looped a live element back has blitted it at the
\* position it was looped back to
C17_Witness ==
  /\ lastOp = "animate" /\ loop /\ alive /\ wrapped
  /\ screenW > 0 /\ speed >= 1
  /\ currY = MaxY
  /\ blits[1] = <<currX, currY>>
  /\ currX > 0

C19_SeamlessWrap ==
  [][(lastOp = "animate" /\ lastOp' = "animate" /\ wrapped') =>
       /\ Len(blits) = 2
       /\ currX' = blits[2][1] - speed]_vars

\* C19 as amended: the same, for speed <= screenW div 3; with a larger speed
\* (or a screen less than 3 wide) the element can be looped back without a
\* second copy having been blitted by the earlier call.
C19_SeamlessWrapSlow ==
  [][(lastOp = "animate" /\ lastOp' = "animate" /\ wrapped'
        /\ speed <= (screenW \div 3)) =>
       /\ Len(blits) = 2
       /\ currX' = blits[2][1] - speed]_vars

\* C19 witness: a live looping element moving slower than a third of the
\* screen has been looped back
C19_Witness ==
  /\ lastOp = "animate" /\ loop /\ alive /\ wrapped
  /\ speed >= 1 /\ speed <= (screenW \div 3)
  /\ currX = 2 * (screenW \div 3) - speed

\* C20: with only animate calls on a screen of fixed size and speed s >= 1, a
\* non-looping element never moves right, does not move at all when it is at
\* or left of its target (so an overshoot stays), and a position above
\* target - s stays above target - s (every start at or right of the target
\* is such a position).
C20_BoundedOvershoot ==
  [][(~loop /\ lastOp' = "animate") =>
       /\ wantedX' # None
       /\ currX' <= currX
       /\ currX <= Val(wantedX') => currX' = currX
       /\ currX > Val(wantedX') - speed => currX' > Val(wantedX') - speed]_vars

\* C20 witness: a non-looping element with speed 2 has stepped one past its
\* target
C20_Witness ==
  /\ ~loop /\ lastOp = "animate" /\ alive
  /\ speed = 2
  /\ wantedX # None
  /\ currX = Val(wantedX) - 1
  /\ currX < -MaxStartX

\* C12: when both elements have been animated in a frame, in whichever order,
\* each element is what its own animate call makes of its own state at the
\* start of the frame and its blits are those of that call; and no animate,
\* kill or set_speed on one element changes a field of the other.
C12_Independent ==
  /\ [](pending = {} =>
          \A i \in ElemIds :
            /\ elems[i] = AnimateElem(frameStart[i], screenW)
            /\ BlitsOf(i, screen) = BlitsElem(elems[i], screenW))
  /\ [][\A i \in ElemIds : \A j \in ElemIds \ {i} :
          elems'[i] # elems[i] => elems'[j] = elems[j]]_vars

\* C12 witness: element 2 was animated before element 1 in a frame in which
\* one of them was looped back and the other, killed, moved on
C12_Witness ==
  /\ pending = {} /\ frame >= 1
  /\ Len(screen) >= 2 /\ screen[1][1] = 2
  /\ elems[1].currX # frameStart[1].currX
  /\ elems[2].currX # frameStart[2].currX
  /\ \E i \in ElemIds : elems[i].loop /\ elems[i].currX > frameStart[i].currX
  /\ \E i \in ElemIds : ~elems[i].alive

====
